---- MODULE Spec2Model ----
(***************************************************************************)
(* Model of the filing-ingestion core of gravitic-celestial:               *)
(*   - StateManager (core/ingestion/state_manager.py): the SQLite ledger   *)
(*     processed_filings / filing_errors and its operations;               *)
(*   - PollingEngine.run_once (core/ingestion/polling_engine.py): one      *)
(*     polling cycle, executed by one or two engines sharing the ledger;   *)
(*   - PollingEngine.start_loop and start_scheduled: the running engine,   *)
(*     which calls run_once from its loop or from the scheduler's job.     *)
(* Every SQL statement is one atomic step (SQLite serialises statements);  *)
(* a collaborator call (get_latest_filings, get_filing_text,               *)
(* extract_from_text, the report write, send_report_alert) is a step of    *)
(* its own, so that other engines interleave exactly where the code can be *)
(* pre-empted.  The store is assumed available: the sqlite3 exceptions the *)
(* mark_* methods swallow are not modelled.                                *)
(***************************************************************************)
EXTENDS Integers, Sequences, FiniteSets, TLC

VARIABLES
    rows,       \* table processed_filings: accession -> row, or NoRow
    errors,     \* table filing_errors: sequence of records, id = position
    now,        \* the database clock (CURRENT_TIMESTAMP), in minutes
    ret,        \* the last StateManager call and what it returned
    tickers,    \* per engine: PollingEngine.tickers
    cycles,     \* number of run_once invocations started so far
    pc,         \* per engine: position inside run_once
    gi,         \* per engine: index of the market group being polled
    filings,    \* per engine: the list get_latest_filings returned
    fi,         \* per engine: index of the filing being handled
    exc,        \* per engine: the exception caught at line 107, or NoExc
    seen,       \* per engine: the status is_processed found for the current filing
    text,       \* per engine: how get_filing_text ended for the current filing
    log,        \* per engine: outcome of every descriptor handled this cycle
    work,       \* per engine: the collaborator calls made this cycle
    polled,     \* per engine: per group of this cycle, how its fetch ended
    call,       \* the entry point called (start_loop / start_scheduled) and its arguments
    main,       \* position of the main thread inside that entry point
    trigger,    \* the trigger of the job added to the scheduler, or NoTrigger
    slog        \* what the entry point and the scheduler have logged

storeVars  == <<rows, errors, now, ret>>
runVars    == <<call, main, trigger, slog>>
engineVars == <<tickers, cycles, pc, gi, filings, fi, exc, seen, text, log, work,
                polled, runVars>>
vars       == <<rows, errors, now, ret, tickers, cycles, pc, gi, filings, fi, exc,
                seen, text, log, work, polled, call, main, trigger, slog>>

(***************************************************************************)
(* Bounds of the model.                                                    *)
(***************************************************************************)
MaxTime   == 2      \* the clock runs 0..MaxTime
MaxErrors == 2      \* cap on filing_errors rows in the store-level model
MaxAge    == 1      \* max_age_minutes is drawn from -1..MaxAge
MaxCycles == 2      \* run_once invocations per behaviour

(***************************************************************************)
(* Values.                                                                 *)
(***************************************************************************)
Accessions == {"a1", "a2", "a3"}
NoRow      == [status |-> "absent"]
NULL       == 0                  \* SQL NULL in error_id; real ids start at 1
NONE       == "None"             \* Python None / a missing dict key

IN_PROGRESS == "in_progress"
PROCESSED   == "processed"
FAILED      == "failed"
Statuses    == {IN_PROGRESS, PROCESSED, FAILED}

Row(t, d, s, at, e) ==
    [ticker |-> t, filing_date |-> d, status |-> s, status_updated_at |-> at,
     error_id |-> e]

ErrorRow(id, a, t, et, em) ==
    [id |-> id, accession_number |-> a, ticker |-> t, error_type |-> et,
     error_message |-> em]

(***************************************************************************)
(* StateManager.  The operations are functions of the database contents   *)
(* db = [rows, errors]; the actions further down apply them.               *)
(***************************************************************************)
Db == [rows |-> rows, errors |-> errors]

\* is_processed without the status filter: any row counts.
is_processed_any_row(db, a) == db.rows[a] # NoRow

\* is_processed with the status filter narrowed to 'processed' only.
is_processed_only_done(db, a) ==
    db.rows[a] # NoRow /\ db.rows[a].status \in {PROCESSED}

\* SELECT 1 FROM processed_filings WHERE accession_number = ?
\*   AND status IN ('processed', 'in_progress');  result is not None
is_processed(db, a) ==
    db.rows[a] # NoRow /\ db.rows[a].status \in {PROCESSED, IN_PROGRESS}

\* INSERT ... ON CONFLICT(accession_number) DO UPDATE SET ticker, filing_date,
\* status, status_updated_at = CURRENT_TIMESTAMP, error_id: whether or not a
\* row exists, the row for `a` afterwards is the one given.  (processed_at is
\* written by the column default only and read by nothing.)
Upsert(rs, a, t, d, s, e) ==
    [rs EXCEPT ![a] = Row(t, d, s, now, e)]

\* mark_in_progress as INSERT OR IGNORE: an existing row is left as it is.
mark_in_progress_insert_only(db, a, t, d) ==
    IF db.rows[a] = NoRow
    THEN [rows |-> Upsert(db.rows, a, t, d, IN_PROGRESS, NULL), errors |-> db.errors]
    ELSE db

mark_in_progress(db, a, t, d) ==
    [rows |-> Upsert(db.rows, a, t, d, IN_PROGRESS, NULL), errors |-> db.errors]

\* mark_processed that, finding a row already processed, files a record of
\* the repeat in filing_errors.
mark_processed_records_repeat(db, a, t, d) ==
    [rows   |-> Upsert(db.rows, a, t, d, PROCESSED, NULL),
     errors |-> IF db.rows[a] # NoRow /\ db.rows[a].status = PROCESSED
                THEN Append(db.errors,
                            ErrorRow(Len(db.errors) + 1, a, t, "duplicate", ""))
                ELSE db.errors]

\* mark_processed that keeps the previous error_id on conflict.
mark_processed_keeps_error(db, a, t, d) ==
    [rows   |-> Upsert(db.rows, a, t, d, PROCESSED,
                       IF db.rows[a] = NoRow THEN NULL ELSE db.rows[a].error_id),
     errors |-> db.errors]

mark_processed(db, a, t, d) ==
    [rows |-> Upsert(db.rows, a, t, d, PROCESSED, NULL), errors |-> db.errors]

\* mark_failed whose second statement is a plain UPDATE: without a row the
\* failure record is written and no row is created.
mark_failed_update_only(db, a, t, d, et, em) ==
    LET id == Len(db.errors) + 1
    IN [rows   |-> IF db.rows[a] = NoRow THEN db.rows
                   ELSE Upsert(db.rows, a, t, d, FAILED, id),
        errors |-> Append(db.errors, ErrorRow(id, a, t, et, em))]

\* mark_failed that records a fixed error type instead of the one it is given.
mark_failed_generic(db, a, t, d, et, em) ==
    LET id == Len(db.errors) + 1
    IN [rows   |-> Upsert(db.rows, a, t, d, FAILED, id),
        errors |-> Append(db.errors, ErrorRow(id, a, t, "Exception", em))]

\* mark_failed that appends the error row and then writes status 'in_progress'.
mark_failed_keeps_claim(db, a, t, d, et, em) ==
    LET id == Len(db.errors) + 1
    IN [rows   |-> Upsert(db.rows, a, t, d, IN_PROGRESS, id),
        errors |-> Append(db.errors, ErrorRow(id, a, t, et, em))]

\* INSERT INTO filing_errors; error_id = lastrowid (AUTOINCREMENT and no
\* deletes: the id is the new row count); then the upsert that links it.
mark_failed(db, a, t, d, et, em) ==
    LET id == Len(db.errors) + 1
    IN [rows   |-> Upsert(db.rows, a, t, d, FAILED, id),
        errors |-> Append(db.errors, ErrorRow(id, a, t, et, em))]

\* The stale SELECT with the comparison made one minute too late.
StaleRows_late(db, max_age) ==
    IF max_age < 0 THEN {}
    ELSE {a \in Accessions : /\ db.rows[a] # NoRow
                             /\ db.rows[a].status = IN_PROGRESS
                             /\ db.rows[a].status_updated_at < now - max_age - 1}

\* SELECT accession_number, ticker, filing_date FROM processed_filings
\*   WHERE status = 'in_progress'
\*     AND status_updated_at < datetime('now', '-<max_age> minutes').
\* A negative max_age formats as '--N minutes', which SQLite rejects:
\* datetime() is then NULL and no row compares below it.
StaleRows(db, max_age) ==
    IF max_age < 0 THEN {}
    ELSE {a \in Accessions : /\ db.rows[a] # NoRow
                             /\ db.rows[a].status = IN_PROGRESS
                             /\ db.rows[a].status_updated_at < now - max_age}

StaleMessage(max_age) == <<"Filing stuck in progress for more than", max_age, "minutes.">>

\* The for-loop of cleanup_stale_in_progress over the fetched rows, taken in
\* the order `order`: one mark_failed per row, with the row's own ticker and
\* filing_date (both are strings here, so `or ""` changes nothing).
RECURSIVE SweepRows(_, _, _)
SweepRows(order, db, max_age) ==
    IF order = <<>> THEN db
    ELSE LET a == Head(order)
         IN SweepRows(Tail(order),
                      mark_failed(db, a, db.rows[a].ticker, db.rows[a].filing_date,
                                  "stale_in_progress", StaleMessage(max_age)),
                      max_age)

\* The orders in which a SELECT without ORDER BY may return the rows of S.
Orders(S) ==
    {o \in [1..Cardinality(S) -> S] :
        \A i, j \in 1..Cardinality(S) : i # j => o[i] # o[j]}

(***************************************************************************)
(* StateManager's methods as steps of a client of the store.               *)
(***************************************************************************)
SetDb(db) == rows' = db.rows /\ errors' = db.errors

StoreTickers == [a1 |-> "NVDA", a2 |-> "AMD", a3 |-> "RELI"]
ApiErrors    == {[type |-> "RuntimeError", msg |-> "boom"]}

ApiIsProcessed(a) ==
    /\ ret' = [op |-> "is_processed", arg |-> a, val |-> is_processed(Db, a)]
    /\ UNCHANGED <<rows, errors, now, engineVars>>

ApiMarkInProgress(a, t, d) ==
    /\ SetDb(mark_in_progress(Db, a, t, d))
    /\ ret' = [op |-> "mark_in_progress", arg |-> a, val |-> NONE]
    /\ UNCHANGED <<now, engineVars>>

ApiMarkProcessed(a, t, d) ==
    /\ SetDb(mark_processed(Db, a, t, d))
    /\ ret' = [op |-> "mark_processed", arg |-> a, val |-> NONE]
    /\ UNCHANGED <<now, engineVars>>

ApiMarkFailed(a, t, d, e) ==
    /\ Len(errors) < MaxErrors
    /\ SetDb(mark_failed(Db, a, t, d, e.type, e.msg))
    /\ ret' = [op |-> "mark_failed", arg |-> a, val |-> NONE]
    /\ UNCHANGED <<now, engineVars>>

\* cleanup_stale_in_progress: the SELECT, the loop, and len(stale) returned.
cleanup_stale_in_progress(max_age) ==
    LET stale == StaleRows(Db, max_age)
    IN /\ Len(errors) + Cardinality(stale) <= MaxErrors
       /\ \E o \in Orders(stale) : SetDb(SweepRows(o, Db, max_age))
       /\ ret' = [op |-> "cleanup_stale_in_progress", arg |-> max_age,
                  val |-> Cardinality(stale)]
       /\ UNCHANGED <<now, engineVars>>

\* SELECT COUNT(*) FROM processed_filings: the number of rows, whatever
\* their status.
get_processed_count(db) == Cardinality({a \in Accessions : db.rows[a] # NoRow})

ApiGetProcessedCount ==
    /\ ret' = [op |-> "get_processed_count", arg |-> NONE,
               val |-> get_processed_count(Db)]
    /\ UNCHANGED <<rows, errors, now, engineVars>>

\* Time passes on the database clock.
Tick ==
    /\ now < MaxTime
    /\ now' = now + 1
    /\ UNCHANGED <<rows, errors, ret, engineVars>>

\* The accessions the store-level clients pass.
StoreAccessions == {"a1", "a2"}

NextStore ==
    \/ \E a \in StoreAccessions : ApiIsProcessed(a)
    \/ \E a \in StoreAccessions : ApiMarkInProgress(a, StoreTickers[a], "")
    \/ \E a \in StoreAccessions : ApiMarkProcessed(a, StoreTickers[a], "")
    \/ \E a \in StoreAccessions, e \in ApiErrors :
           ApiMarkFailed(a, StoreTickers[a], "", e)
    \/ \E m \in -1..MaxAge : cleanup_stale_in_progress(m)
    \/ ApiGetProcessedCount
    \/ Tick

(***************************************************************************)
(* The collaborators of PollingEngine, as far as run_once can tell them    *)
(* apart.                                                                  *)
(***************************************************************************)
Engines == {"e1", "e2"}

Markets  == <<"us", "in", "xx">>
MarketOf == [NVDA |-> "us", AMD |-> "us", RELI |-> "in", ZZZ |-> "xx"]

\* The deployments modelled: e1 alone on a ledger with a full or a partly
\* unrecognised ticker list (e2 has no tickers and returns at line 31), and
\* two workers e1 and e2 polling the same ticker on one ledger.
TickerConfigs ==
    {[e1 |-> <<"NVDA", "AMD", "RELI">>, e2 |-> <<>>],
     [e1 |-> <<"NVDA", "ZZZ">>,         e2 |-> <<>>],
     [e1 |-> <<"NVDA">>,                e2 |-> <<"NVDA">>]}

\* MarketRegistry.group_tickers_by_market: a partition of the tickers by
\* market that keeps their order; a market without tickers has an empty list.
group_tickers_by_market(ts) ==
    [m \in 1..Len(Markets) |->
        SelectSeq(ts, LAMBDA t : MarketOf[t] = Markets[m])]

\* MarketRegistry.get_client fails with UnknownMarket for a ticker of no
\* recognised market.
get_client_raises(t) == MarketOf[t] = "xx"

dA   == [accession_number |-> "a1", ticker |-> "NVDA",
         filing_date |-> "2024-05-01", filing_obj |-> TRUE]
dB   == [accession_number |-> "a2", ticker |-> "AMD",
         filing_date |-> NONE, filing_obj |-> TRUE]
dC   == [accession_number |-> "a3", ticker |-> "RELI",
         filing_date |-> "2024-05-02", filing_obj |-> FALSE]
dBad == [accession_number |-> NONE, ticker |-> "NVDA",
         filing_date |-> "2024-05-03", filing_obj |-> TRUE]

\* What get_latest_filings may return for a list of tickers: descriptors of
\* those tickers only (EdgarClient.get_latest_filings stamps each result with
\* the ticker it asked for).
Range(q) == {q[i] : i \in 1..Len(q)}

FetchResults(ts) ==
    {l \in {<<>>, <<dA, dB>>, <<dBad, dA>>, <<dC>>} :
        \A i \in 1..Len(l) : l[i].ticker \in Range(ts)}

NoExc       == [type |-> NONE, msg |-> NONE]
ExtractExc  == [type |-> "ValueError", msg |-> "no KPIs found"]
SaveExc     == [type |-> "OSError", msg |-> "disk full"]
NotifyExc   == [type |-> "ConnectionError", msg |-> "webhook down"]

(***************************************************************************)
(* PollingEngine.run_once, per engine e.                                   *)
(***************************************************************************)
groups(e) == group_tickers_by_market(tickers[e])

\* The descriptor under the for-loop of line 59.
Filing(e) == filings[e][fi[e]]

\* Lines 73-76: a missing filing_date becomes "".
FilingDate(f) == IF f.filing_date = NONE THEN "" ELSE f.filing_date

\* Lines 63: `not accession or not ticker`.
Malformed(f) == f.accession_number = NONE \/ f.ticker = NONE

LogEntry(a, out, txt, x) == [acc |-> a, out |-> out, text |-> txt, exc |-> x]

Status(db, a) == db.rows[a].status

\* run_once's locals go out of scope when it returns or raises.
Locals(e) ==
    /\ filings' = [filings EXCEPT ![e] = <<>>]
    /\ fi' = [fi EXCEPT ![e] = 1]
    /\ seen' = [seen EXCEPT ![e] = NONE]
    /\ text' = [text EXCEPT ![e] = "unfetched"]

\* Lines 27-41: the empty-tickers return, or the grouping.  Engine e1 is
\* invoked again after it returns (start_loop, the scheduler); the second
\* worker e2 performs one run.
RunOnceStart(e) ==
    /\ pc[e] = "idle" \/ (pc[e] = "returned" /\ e = "e1")
    /\ cycles < MaxCycles
    /\ cycles' = cycles + 1
    /\ log' = [log EXCEPT ![e] = <<>>]
    /\ work' = [work EXCEPT ![e] = {}]
    /\ polled' = [polled EXCEPT ![e] = [m \in 1..Len(Markets) |-> "pending"]]
    /\ gi' = [gi EXCEPT ![e] = 1]
    /\ pc' = [pc EXCEPT ![e] = IF tickers[e] = <<>> THEN "returned" ELSE "group"]
    /\ UNCHANGED <<storeVars, tickers, runVars, filings, fi, exc, seen, text>>

\* The for-loop of line 43 is exhausted: run_once returns.
GroupsDone(e) ==
    /\ pc[e] = "group"
    /\ gi[e] > Len(groups(e))
    /\ pc' = [pc EXCEPT ![e] = "returned"]
    /\ Locals(e)
    /\ UNCHANGED <<storeVars, tickers, runVars, cycles, gi, exc, log, work, polled>>

\* Lines 44-45: a market with no tickers is passed over.
GroupEmpty(e) ==
    /\ pc[e] = "group"
    /\ gi[e] <= Len(groups(e))
    /\ groups(e)[gi[e]] = <<>>
    /\ polled' = [polled EXCEPT ![e][gi[e]] = "empty"]
    /\ gi' = [gi EXCEPT ![e] = gi[e] + 1]
    /\ UNCHANGED <<storeVars, tickers, runVars, cycles, pc, filings, fi, exc, seen, text, log, work>>

\* Line 51, outside every try: get_client raises and the exception leaves
\* run_once.
GetClientRaises(e) ==
    /\ pc[e] = "group"
    /\ gi[e] <= Len(groups(e))
    /\ groups(e)[gi[e]] # <<>>
    /\ get_client_raises(groups(e)[gi[e]][1])
    /\ polled' = [polled EXCEPT ![e][gi[e]] = "client_raised"]
    /\ pc' = [pc EXCEPT ![e] = "raised"]
    /\ Locals(e)
    /\ UNCHANGED <<storeVars, tickers, runVars, cycles, gi, exc, log, work>>

\* Line 51: the client is resolved; line 54 calls get_latest_filings.
GetClient(e) ==
    /\ pc[e] = "group"
    /\ gi[e] <= Len(groups(e))
    /\ groups(e)[gi[e]] # <<>>
    /\ ~get_client_raises(groups(e)[gi[e]][1])
    /\ pc' = [pc EXCEPT ![e] = "fetch"]
    /\ UNCHANGED <<storeVars, tickers, runVars, cycles, gi, filings, fi, exc, seen, text, log,
                   work, polled>>

\* FetchRaises without the try of line 53: the exception leaves run_once.
FetchRaises_aborts(e) ==
    /\ pc[e] = "fetch"
    /\ polled' = [polled EXCEPT ![e][gi[e]] = "fetch_raised"]
    /\ pc' = [pc EXCEPT ![e] = "raised"]
    /\ Locals(e)
    /\ UNCHANGED <<storeVars, tickers, runVars, cycles, gi, exc, log, work>>

\* Lines 55-57: get_latest_filings raises; logged, `continue`.
FetchRaises(e) ==
    /\ pc[e] = "fetch"
    /\ polled' = [polled EXCEPT ![e][gi[e]] = "fetch_raised"]
    /\ gi' = [gi EXCEPT ![e] = gi[e] + 1]
    /\ pc' = [pc EXCEPT ![e] = "group"]
    /\ UNCHANGED <<storeVars, tickers, runVars, cycles, filings, fi, exc, seen, text, log, work>>

\* Line 54: get_latest_filings returns a list.
FetchReturns(e) ==
    /\ pc[e] = "fetch"
    /\ \E l \in FetchResults(groups(e)[gi[e]]) :
           filings' = [filings EXCEPT ![e] = l]
    /\ fi' = [fi EXCEPT ![e] = 1]
    /\ polled' = [polled EXCEPT ![e][gi[e]] = "ok"]
    /\ pc' = [pc EXCEPT ![e] = "filing"]
    /\ UNCHANGED <<storeVars, tickers, runVars, cycles, gi, exc, seen, text, log, work>>

\* The for-loop of line 59 is exhausted: on to the next market group.
FilingsDone(e) ==
    /\ pc[e] = "filing"
    /\ fi[e] > Len(filings[e])
    /\ gi' = [gi EXCEPT ![e] = gi[e] + 1]
    /\ pc' = [pc EXCEPT ![e] = "group"]
    /\ UNCHANGED <<storeVars, tickers, runVars, cycles, filings, fi, exc, seen, text, log,
                   work, polled>>

\* Lines 63-65: a descriptor without accession or ticker is skipped.
SkipMalformed(e) ==
    /\ pc[e] = "filing"
    /\ fi[e] <= Len(filings[e])
    /\ Malformed(Filing(e))
    /\ log' = [log EXCEPT ![e] = Append(@, LogEntry(NONE, "malformed", NONE, NoExc))]
    /\ fi' = [fi EXCEPT ![e] = fi[e] + 1]
    /\ UNCHANGED <<storeVars, tickers, runVars, cycles, pc, gi, filings, exc, seen, text, work, polled>>

\* Lines 67-69: is_processed answers true; `continue`.
SkipProcessed(e) ==
    /\ pc[e] = "filing"
    /\ fi[e] <= Len(filings[e])
    /\ ~Malformed(Filing(e))
    /\ LET a == Filing(e).accession_number
       IN /\ is_processed(Db, a)
          /\ ret' = [op |-> "is_processed", arg |-> a, val |-> TRUE]
          /\ seen' = [seen EXCEPT ![e] = Status(Db, a)]
          /\ log' = [log EXCEPT ![e] = Append(@, LogEntry(a, "skipped", NONE, NoExc))]
    /\ fi' = [fi EXCEPT ![e] = fi[e] + 1]
    /\ UNCHANGED <<rows, errors, now, tickers, runVars, cycles, pc, gi, filings, exc, text, work,
                   polled>>

\* Lines 67-80: is_processed answers false; the filing is new.  With a
\* filing_obj the next thing run_once does is call get_filing_text (line 83),
\* without one it goes to mark_processed (line 104).
NewFiling(e) ==
    /\ pc[e] = "filing"
    /\ fi[e] <= Len(filings[e])
    /\ ~Malformed(Filing(e))
    /\ LET a == Filing(e).accession_number
       IN /\ ~is_processed(Db, a)
          /\ ret' = [op |-> "is_processed", arg |-> a, val |-> FALSE]
          /\ seen' = [seen EXCEPT ![e] = Status(Db, a)]
          /\ work' = [work EXCEPT ![e] =
                        IF Filing(e).filing_obj THEN @ \cup {<<a, "text">>} ELSE @]
    /\ text' = [text EXCEPT ![e] = "unfetched"]
    /\ pc' = [pc EXCEPT ![e] = IF Filing(e).filing_obj THEN "text" ELSE "mark_processed"]
    /\ UNCHANGED <<rows, errors, now, tickers, runVars, cycles, gi, filings, fi, exc, log, polled>>

\* GetFilingText with line 88 testing `text_content is not None`: only a
\* raised fetch skips the extraction.
GetFilingText_extracts_empty(e) ==
    /\ pc[e] = "text"
    /\ \E t \in {"raised", "absent", "present"} :
         /\ text' = [text EXCEPT ![e] = t]
         /\ pc' = [pc EXCEPT ![e] = IF t # "raised" THEN "extract"
                                    ELSE "mark_processed"]
         /\ work' = [work EXCEPT ![e] =
                       IF t # "raised"
                       THEN @ \cup {<<Filing(e).accession_number, "extract">>}
                       ELSE @]
    /\ UNCHANGED <<storeVars, tickers, runVars, cycles, gi, filings, fi, exc, seen, log, polled>>

\* Lines 82-88 and 99-100: get_filing_text ends.  An exception is caught at
\* line 84 and the text becomes None; None or "" is "No content extracted";
\* either way line 104 follows.  A non-empty text goes to extract_from_text.
GetFilingText(e) ==
    /\ pc[e] = "text"
    /\ \E t \in {"raised", "absent", "present"} :
         /\ text' = [text EXCEPT ![e] = t]
         /\ pc' = [pc EXCEPT ![e] = IF t = "present" THEN "extract"
                                    ELSE "mark_processed"]
         /\ work' = [work EXCEPT ![e] =
                       IF t = "present"
                       THEN @ \cup {<<Filing(e).accession_number, "extract">>}
                       ELSE @]
    /\ UNCHANGED <<storeVars, tickers, runVars, cycles, gi, filings, fi, exc, seen, log, polled>>

\* Line 94: extract_from_text returns the report; line 97 starts _save_report.
Extract(e) ==
    /\ pc[e] = "extract"
    /\ pc' = [pc EXCEPT ![e] = "save"]
    /\ work' = [work EXCEPT ![e] = @ \cup {<<Filing(e).accession_number, "artifact">>}]
    /\ UNCHANGED <<storeVars, tickers, runVars, cycles, gi, filings, fi, exc, seen, text, log,
                   polled>>

\* Line 94 raises: caught at line 107.
ExtractRaises(e) ==
    /\ pc[e] = "extract"
    /\ exc' = [exc EXCEPT ![e] = ExtractExc]
    /\ pc' = [pc EXCEPT ![e] = "mark_failed"]
    /\ UNCHANGED <<storeVars, tickers, runVars, cycles, gi, filings, fi, seen, text, log, work,
                   polled>>

\* _save_report, lines 191-213: the report file is written; line 216-217
\* start the notification.
SaveReport(e) ==
    /\ pc[e] = "save"
    /\ pc' = [pc EXCEPT ![e] = "notify"]
    /\ work' = [work EXCEPT ![e] = @ \cup {<<Filing(e).accession_number, "notify">>}]
    /\ UNCHANGED <<storeVars, tickers, runVars, cycles, gi, filings, fi, exc, seen, text, log,
                   polled>>

\* makedirs, open or write raises inside _save_report: caught at line 107.
SaveReportRaises(e) ==
    /\ pc[e] = "save"
    /\ exc' = [exc EXCEPT ![e] = SaveExc]
    /\ pc' = [pc EXCEPT ![e] = "mark_failed"]
    /\ UNCHANGED <<storeVars, tickers, runVars, cycles, gi, filings, fi, seen, text, log, work,
                   polled>>

\* Lines 216-217 return; _save_report returns; line 104 follows.
Notify(e) ==
    /\ pc[e] = "notify"
    /\ pc' = [pc EXCEPT ![e] = "mark_processed"]
    /\ UNCHANGED <<storeVars, tickers, runVars, cycles, gi, filings, fi, exc, seen, text, log,
                   work, polled>>

\* NotificationClient() or send_report_alert raises: caught at line 107.
NotifyRaises(e) ==
    /\ pc[e] = "notify"
    /\ exc' = [exc EXCEPT ![e] = NotifyExc]
    /\ pc' = [pc EXCEPT ![e] = "mark_failed"]
    /\ UNCHANGED <<storeVars, tickers, runVars, cycles, gi, filings, fi, seen, text, log, work,
                   polled>>

\* Lines 104-105, then the next descriptor.
MarkProcessed(e) ==
    /\ pc[e] = "mark_processed"
    /\ LET f == Filing(e)
           a == f.accession_number
       IN /\ SetDb(mark_processed(Db, a, f.ticker, FilingDate(f)))
          /\ ret' = [op |-> "mark_processed", arg |-> a, val |-> NONE]
          /\ log' = [log EXCEPT ![e] = Append(@, LogEntry(a, "processed", text[e], NoExc))]
    /\ fi' = [fi EXCEPT ![e] = fi[e] + 1]
    /\ pc' = [pc EXCEPT ![e] = "filing"]
    /\ UNCHANGED <<now, tickers, runVars, cycles, gi, filings, exc, seen, text, work, polled>>

\* Lines 107-115: mark_failed with type(exc).__name__ and str(exc), then the
\* next descriptor.
MarkFailed(e) ==
    /\ pc[e] = "mark_failed"
    /\ LET f == Filing(e)
           a == f.accession_number
       IN /\ SetDb(mark_failed(Db, a, f.ticker, FilingDate(f), exc[e].type, exc[e].msg))
          /\ ret' = [op |-> "mark_failed", arg |-> a, val |-> NONE]
          /\ log' = [log EXCEPT ![e] = Append(@, LogEntry(a, "failed", text[e], exc[e]))]
    /\ exc' = [exc EXCEPT ![e] = NoExc]
    /\ fi' = [fi EXCEPT ![e] = fi[e] + 1]
    /\ pc' = [pc EXCEPT ![e] = "filing"]
    /\ UNCHANGED <<now, tickers, runVars, cycles, gi, filings, seen, text, work, polled>>

(***************************************************************************)
(* The ledger an engine finds at start-up: rows absent, in_progress,        *)
(* processed or failed, written by StateManager's own operations at time   *)
(* 0; every status occurs for every accession in some start-up ledger.     *)
(***************************************************************************)
EmptyDb == [rows |-> [a \in Accessions |-> NoRow], errors |-> <<>>]

PriorExc == [type |-> "TimeoutError", msg |-> "earlier attempt"]

RECURSIVE Populate(_, _, _)
Populate(todo, st, db) ==
    IF todo = <<>> THEN db
    ELSE LET a == Head(todo)
             t == StoreTickers[a]
             d == CASE st[a] = IN_PROGRESS -> mark_in_progress(db, a, t, "")
                    [] st[a] = PROCESSED   -> mark_processed(db, a, t, "")
                    [] st[a] = FAILED      -> mark_failed(db, a, t, "", PriorExc.type,
                                                          PriorExc.msg)
                    [] OTHER               -> db
         IN Populate(Tail(todo), st, d)

InitStatuses ==
    {[a1 |-> "absent",    a2 |-> "absent",    a3 |-> "absent"],
     [a1 |-> IN_PROGRESS, a2 |-> "absent",    a3 |-> "absent"],
     [a1 |-> PROCESSED,   a2 |-> FAILED,      a3 |-> "absent"],
     [a1 |-> FAILED,      a2 |-> IN_PROGRESS, a3 |-> PROCESSED],
     [a1 |-> PROCESSED,   a2 |-> PROCESSED,   a3 |-> FAILED],
     [a1 |-> IN_PROGRESS, a2 |-> IN_PROGRESS, a3 |-> IN_PROGRESS]}

InitDbs == {Populate(<<"a1", "a2", "a3">>, st, EmptyDb) : st \in InitStatuses}

InitEngines ==
    /\ cycles = 0
    /\ pc = [e \in Engines |-> "idle"]
    /\ gi = [e \in Engines |-> 1]
    /\ filings = [e \in Engines |-> <<>>]
    /\ fi = [e \in Engines |-> 1]
    /\ exc = [e \in Engines |-> NoExc]
    /\ seen = [e \in Engines |-> NONE]
    /\ text = [e \in Engines |-> "unfetched"]
    /\ log = [e \in Engines |-> <<>>]
    /\ work = [e \in Engines |-> {}]
    /\ polled = [e \in Engines |-> [m \in 1..Len(Markets) |-> "pending"]]

\* run_once is invoked directly: neither start_loop nor start_scheduled runs.
NoCall    == [fn |-> NONE]
NoTrigger == [kind |-> NONE]

NotCalled ==
    /\ call = NoCall
    /\ main = "idle"
    /\ trigger = NoTrigger
    /\ slog = {}

Init ==
    /\ now = 0
    /\ \E db \in InitDbs : rows = db.rows /\ errors = db.errors
    /\ ret = [op |-> NONE, arg |-> NONE, val |-> NONE]
    /\ tickers \in TickerConfigs
    /\ InitEngines
    /\ NotCalled

Next ==
    \E e \in Engines :
        \/ RunOnceStart(e)
        \/ GroupsDone(e)
        \/ GroupEmpty(e)
        \/ GetClientRaises(e)
        \/ GetClient(e)
        \/ FetchRaises(e)
        \/ FetchReturns(e)
        \/ FilingsDone(e)
        \/ SkipMalformed(e)
        \/ SkipProcessed(e)
        \/ NewFiling(e)
        \/ GetFilingText(e)
        \/ Extract(e)
        \/ ExtractRaises(e)
        \/ SaveReport(e)
        \/ SaveReportRaises(e)
        \/ Notify(e)
        \/ NotifyRaises(e)
        \/ MarkProcessed(e)
        \/ MarkFailed(e)

Spec == Init /\ [][Next]_vars

InitStore ==
    /\ rows = EmptyDb.rows
    /\ errors = EmptyDb.errors
    /\ now = 0
    /\ ret = [op |-> NONE, arg |-> NONE, val |-> NONE]
    /\ tickers = [e \in Engines |-> <<>>]
    /\ InitEngines
    /\ NotCalled

SpecStore == InitStore /\ [][NextStore]_vars

(***************************************************************************)
(* The running engine: PollingEngine.start_loop and start_scheduled.  The  *)
(* main thread executes the entry point; run_once executes in a frame      *)
(* e \in Engines: the main thread's calls (the loop's, the start-up run)   *)
(* use frame e1, a job of the scheduler runs on a pool thread in a free    *)
(* frame.  APScheduler is modelled by what its documentation says of       *)
(* from_crontab, IntervalTrigger, add_job(max_instances) and               *)
(* BlockingScheduler.start / shutdown.                                     *)
(***************************************************************************)
frameVars == <<tickers, cycles, pc, gi, filings, fi, exc, seen, text, log, work,
               polled>>

\* A cron expression is the sequence of its whitespace-separated fields; the
\* empty sequence stands for None and for "", which line 160 does not tell
\* apart.
CronFieldExprs == {"*", "*/5", "0"}
GoodCron == <<"*/5", "*", "*", "*", "*">>
BadCron  == <<"not-a-cron">>
Crons    == {<<>>, GoodCron, BadCron}

\* CronTrigger.from_crontab raises ValueError unless the expression has five
\* fields, each a valid field expression.
from_crontab_raises(c) ==
    Len(c) # 5 \/ \E i \in 1..Len(c) : c[i] \notin CronFieldExprs

CronTrigger(c)     == [kind |-> "cron", fields |-> c]
IntervalTrigger(m) == [kind |-> "interval", minutes |-> m]

\* interval_seconds of start_loop, interval_minutes of start_scheduled.
Intervals == {-1, 0, 1}

\* The calls modelled; apscheduler tells whether the import of line 140
\* succeeds in the deployment.
Calls ==
    {[fn |-> "start_loop", cron |-> <<>>, interval |-> i, apscheduler |-> TRUE] :
        i \in Intervals}
    \cup {[fn |-> "start_scheduled", cron |-> c, interval |-> i, apscheduler |-> b] :
            c \in Crons, i \in Intervals, b \in BOOLEAN}

\* The frame is executing run_once.
Active(e) == pc[e] \notin {"idle", "returned", "raised", "interrupted"}

\* Lines 27-41 of run_once, entered by a caller in frame e.
RunOnceEnter(e) ==
    /\ ~Active(e)
    /\ log' = [log EXCEPT ![e] = <<>>]
    /\ work' = [work EXCEPT ![e] = {}]
    /\ polled' = [polled EXCEPT ![e] = [m \in 1..Len(Markets) |-> "pending"]]
    /\ gi' = [gi EXCEPT ![e] = 1]
    /\ pc' = [pc EXCEPT ![e] = IF tickers[e] = <<>> THEN "returned" ELSE "group"]
    /\ UNCHANGED <<storeVars, tickers, cycles, filings, fi, exc, seen, text>>

\* Lines 119-121: start_loop rejects a non-positive interval, else enters
\* its while-loop.
LoopEntry(interval_seconds) ==
    IF interval_seconds <= 0 THEN "value_error" ELSE "loop"

StartLoop ==
    /\ main = "called"
    /\ call.fn = "start_loop"
    /\ main' = LoopEntry(call.interval)
    /\ UNCHANGED <<storeVars, frameVars, call, trigger, slog>>

\* Line 124: the loop calls run_once.
LoopRunOnce ==
    /\ main \in {"loop", "sleep"}
    /\ main' = "run_once"
    /\ RunOnceEnter("e1")
    /\ UNCHANGED <<call, trigger, slog>>

\* Lines 125-126: run_once has returned; the loop sleeps.
LoopSleep ==
    /\ main = "run_once"
    /\ pc["e1"] = "returned"
    /\ main' = "sleep"
    /\ UNCHANGED <<storeVars, frameVars, call, trigger, slog>>

\* Lines 123-129 catch KeyboardInterrupt only: an exception that leaves
\* run_once leaves start_loop.
LoopCrash ==
    /\ main = "run_once"
    /\ pc["e1"] = "raised"
    /\ main' = "crashed"
    /\ UNCHANGED <<storeVars, frameVars, call, trigger, slog>>

\* Lines 139-148: APScheduler cannot be imported; start_loop is called with
\* interval_minutes * 60.
ImportFallback ==
    /\ main = "called"
    /\ call.fn = "start_scheduled"
    /\ ~call.apscheduler
    /\ slog' = slog \cup {"apscheduler_missing"}
    /\ main' = LoopEntry(call.interval * 60)
    /\ UNCHANGED <<storeVars, frameVars, call, trigger>>

\* Lines 160-162, 167-168 and 175: the cron expression parses; the job is
\* added with the cron trigger.
ScheduleCron ==
    /\ main = "called"
    /\ call.fn = "start_scheduled"
    /\ call.apscheduler
    /\ call.cron # <<>>
    /\ ~from_crontab_raises(call.cron)
    /\ trigger' = CronTrigger(call.cron)
    /\ slog' = slog \cup {"scheduled_cron"}
    /\ main' = "scheduled"
    /\ UNCHANGED <<storeVars, frameVars, call>>

\* ScheduleCronInvalid without the except clause of line 163: the ValueError
\* of from_crontab leaves start_scheduled.
ScheduleCronInvalid_raises ==
    /\ main = "called"
    /\ call.fn = "start_scheduled"
    /\ call.apscheduler
    /\ call.cron # <<>>
    /\ from_crontab_raises(call.cron)
    /\ main' = "value_error"
    /\ UNCHANGED <<storeVars, frameVars, call, trigger, slog>>

\* Lines 160-166 and 175: from_crontab raises ValueError; it is logged and
\* the job is added with IntervalTrigger(minutes=interval_minutes).
ScheduleCronInvalid ==
    /\ main = "called"
    /\ call.fn = "start_scheduled"
    /\ call.apscheduler
    /\ call.cron # <<>>
    /\ from_crontab_raises(call.cron)
    /\ trigger' = IntervalTrigger(call.interval)
    /\ slog' = slog \cup {"invalid_cron", "scheduled_interval"}
    /\ main' = "scheduled"
    /\ UNCHANGED <<storeVars, frameVars, call>>

\* Lines 169-171: no cron expression and a non-positive interval.
ScheduleRejected ==
    /\ main = "called"
    /\ call.fn = "start_scheduled"
    /\ call.apscheduler
    /\ call.cron = <<>>
    /\ call.interval <= 0
    /\ main' = "value_error"
    /\ UNCHANGED <<storeVars, frameVars, call, trigger, slog>>

\* Lines 169-175: no cron expression; the job is added with the interval
\* trigger.
ScheduleInterval ==
    /\ main = "called"
    /\ call.fn = "start_scheduled"
    /\ call.apscheduler
    /\ call.cron = <<>>
    /\ call.interval > 0
    /\ trigger' = IntervalTrigger(call.interval)
    /\ slog' = slog \cup {"scheduled_interval"}
    /\ main' = "scheduled"
    /\ UNCHANGED <<storeVars, frameVars, call>>

\* Line 182: the run at start-up, on the main thread.
StartupRunOnce ==
    /\ main = "scheduled"
    /\ main' = "startup"
    /\ RunOnceEnter("e1")
    /\ UNCHANGED <<call, trigger, slog>>

\* Line 183: the start-up run has returned; scheduler.start() blocks the
\* main thread and the trigger begins to fire.
SchedulerStart ==
    /\ main = "startup"
    /\ pc["e1"] = "returned"
    /\ main' = "scheduler"
    /\ UNCHANGED <<storeVars, frameVars, call, trigger, slog>>

\* Lines 180-187 catch KeyboardInterrupt only: an exception that leaves the
\* start-up run leaves start_scheduled, and the scheduler is never started.
StartupCrash ==
    /\ main = "startup"
    /\ pc["e1"] = "raised"
    /\ main' = "crashed"
    /\ UNCHANGED <<storeVars, frameVars, call, trigger, slog>>

\* Line 175.
max_instances == 1

\* The instances of polling_job the scheduler's executor is running: while
\* the main thread is inside scheduler.start() or shutdown() every running
\* frame was submitted by the scheduler.
JobInstances ==
    IF main \in {"scheduler", "stopped"} THEN {e \in Engines : Active(e)} ELSE {}

MaxInstancesReached_never == FALSE

MaxInstancesReached == Cardinality(JobInstances) >= max_instances

\* The frame a pool thread takes for the next job.
FreeFrame == IF ~Active("e1") THEN "e1" ELSE "e2"

\* The trigger fires and the executor accepts the job: run_once starts on a
\* pool thread.
JobRun ==
    /\ main = "scheduler"
    /\ trigger # NoTrigger
    /\ ~MaxInstancesReached
    /\ RunOnceEnter(FreeFrame)
    /\ UNCHANGED runVars

\* The trigger fires while max_instances instances of the job are running:
\* the executor refuses the job, the scheduler logs that the run time was
\* skipped and computes the next one.
JobSkipped ==
    /\ main = "scheduler"
    /\ trigger # NoTrigger
    /\ MaxInstancesReached
    /\ slog' = slog \cup {"job_skipped"}
    /\ UNCHANGED <<storeVars, frameVars, call, main, trigger>>

\* Lines 152-158: an exception left run_once on a pool thread; the executor
\* catches it and the listener logs it.
JobErrorEvent(e) ==
    /\ main \in {"scheduler", "stopped"}
    /\ pc[e] = "raised"
    /\ pc' = [pc EXCEPT ![e] = "idle"]
    /\ slog' = slog \cup {"job_failed"}
    /\ UNCHANGED <<storeVars, tickers, cycles, gi, filings, fi, exc, seen, text, log,
                   work, polled, call, main, trigger>>

\* Ctrl+C reaches the main thread.  KeyboardInterrupt is no Exception: inside
\* run_once nothing catches it, so a run on the main thread ends where it is.
\* start_loop breaks (lines 127-129).  start_scheduled calls
\* scheduler.shutdown() (lines 184-187), which waits for the running job, and
\* which raises SchedulerNotRunningError when the scheduler was never started.
KeyboardInterrupt ==
    /\ main \in {"run_once", "sleep", "startup", "scheduler"}
    /\ main' = IF main = "startup" THEN "crashed" ELSE "stopped"
    /\ IF main \in {"run_once", "startup"} /\ Active("e1")
       THEN /\ pc' = [pc EXCEPT !["e1"] = "interrupted"]
            /\ exc' = [exc EXCEPT !["e1"] = NoExc]
            /\ Locals("e1")
       ELSE UNCHANGED <<pc, exc, filings, fi, seen, text>>
    /\ UNCHANGED <<storeVars, tickers, cycles, gi, log, work, polled, call, trigger,
                   slog>>

\* The deployments of the running engine: one ticker list, shared by every
\* frame (self.tickers).
RunTickers ==
    {[e \in Engines |-> ts] : ts \in {<<"NVDA">>, <<"NVDA", "ZZZ">>}}

InitRun ==
    /\ now = 0
    /\ \E db \in InitDbs : rows = db.rows /\ errors = db.errors
    /\ ret = [op |-> NONE, arg |-> NONE, val |-> NONE]
    /\ tickers \in RunTickers
    /\ InitEngines
    /\ call \in Calls
    /\ main = "called"
    /\ trigger = NoTrigger
    /\ slog = {}

\* The failure history is kept within MaxErrors records.
NextRun ==
    \/ StartLoop
    \/ LoopRunOnce
    \/ LoopSleep
    \/ LoopCrash
    \/ ImportFallback
    \/ ScheduleCron
    \/ ScheduleCronInvalid
    \/ ScheduleRejected
    \/ ScheduleInterval
    \/ StartupRunOnce
    \/ SchedulerStart
    \/ StartupCrash
    \/ JobRun
    \/ JobSkipped
    \/ KeyboardInterrupt
    \/ \E e \in Engines :
        \/ JobErrorEvent(e)
        \/ GroupsDone(e)
        \/ GroupEmpty(e)
        \/ GetClientRaises(e)
        \/ GetClient(e)
        \/ FetchRaises(e)
        \/ FetchReturns(e)
        \/ FilingsDone(e)
        \/ SkipMalformed(e)
        \/ SkipProcessed(e)
        \/ NewFiling(e)
        \/ GetFilingText(e)
        \/ Extract(e)
        \/ Len(errors) < MaxErrors /\ ExtractRaises(e)
        \/ SaveReport(e)
        \/ Len(errors) < MaxErrors /\ SaveReportRaises(e)
        \/ Notify(e)
        \/ Len(errors) < MaxErrors /\ NotifyRaises(e)
        \/ MarkProcessed(e)
        \/ MarkFailed(e)

SpecRun == InitRun /\ [][NextRun]_vars

\* The threads keep running: a step that stays possible is eventually taken.
SpecRunFair == InitRun /\ [][NextRun]_vars /\ WF_vars(NextRun)

(***************************************************************************)
(* Properties.                                                             *)
(***************************************************************************)
Acc(e) == Filing(e).accession_number

\* Engine e is inside the collaborator calls for its current filing.
Working(e) == pc[e] \in {"text", "extract", "save", "notify"}

\* Engine e is between its dedup check and its final mark_* for the filing.
InFlight(e) == pc[e] \in {"text", "extract", "save", "notify", "mark_processed",
                          "mark_failed"}

\* Engine e takes a step.
Steps(e) == pc'[e] # pc[e] \/ fi'[e] # fi[e] \/ gi'[e] # gi[e]

\* C1: whenever get_filing_text, extract_from_text, the report write or the
\* notification is executing for accession a, the stored row of a has status
\* in_progress (mark_in_progress has been called and has taken effect).
C1_ClaimedBeforeWork ==
    \A e \in Engines :
        Working(e) => rows[Acc(e)] # NoRow /\ rows[Acc(e)].status = IN_PROGRESS

\* C2: two engines sharing the ledger are never both between the dedup check
\* and the final mark_processed / mark_failed for the same accession.
C2_OneAttemptInFlight ==
    \A e, f \in Engines :
        (e # f /\ InFlight(e) /\ InFlight(f)) => Acc(e) # Acc(f)

\* The descriptor engine e has reached is well formed and its row is
\* in_progress or processed.
AtClaimedOrDone(e) ==
    /\ pc[e] = "filing"
    /\ fi[e] <= Len(filings[e])
    /\ ~Malformed(Filing(e))
    /\ rows[Acc(e)] # NoRow
    /\ rows[Acc(e)].status \in {IN_PROGRESS, PROCESSED}

\* C3: when run_once reaches a descriptor whose row is in_progress or
\* processed, its step for that descriptor changes neither the ledger nor the
\* failure history, makes no collaborator call and moves on to the next
\* descriptor; and no engine is ever past the dedup check (fetching text,
\* extracting, writing, notifying or marking) for a filing whose row it found
\* in_progress or processed.
C3_Dedup ==
    /\ [][\A e \in Engines :
            (AtClaimedOrDone(e) /\ Steps(e)) =>
                /\ rows' = rows
                /\ errors' = errors
                /\ work'[e] = work[e]
                /\ pc'[e] = "filing"
                /\ filings'[e] = filings[e]
                /\ fi'[e] = fi[e] + 1
                /\ log'[e] = Append(log[e], LogEntry(Acc(e), "skipped", NONE, NoExc))]_vars
    /\ [](\A e \in Engines : InFlight(e) => seen[e] \notin {IN_PROGRESS, PROCESSED})

\* A second run_once of e1 alone, after a first one that processed a1, has
\* returned having skipped a1 and made no collaborator call at all.
C3_Witness ==
    /\ cycles = 2
    /\ pc["e2"] = "idle"
    /\ pc["e1"] = "returned"
    /\ errors = <<>>
    /\ rows["a1"].status = PROCESSED
    /\ rows["a1"].filing_date = FilingDate(dA)
    /\ \E i \in 1..Len(log["e1"]) :
          log["e1"][i].acc = "a1" /\ log["e1"][i].out = "skipped"
    /\ work["e1"] = {}

\* C4: is_processed(a) returns true iff a row for a exists with status
\* in_progress or processed; false without a row and for a failed row.
C4_IsProcessedIff ==
    ret.op = "is_processed" =>
        LET r == rows[ret.arg]
        IN /\ ret.val = (r # NoRow /\ r.status \in {IN_PROGRESS, PROCESSED})
           /\ r = NoRow => ret.val = FALSE
           /\ (r # NoRow /\ r.status = FAILED) => ret.val = FALSE

\* is_processed has answered false for an accession whose row is failed.
C4_Witness ==
    /\ ret.op = "is_processed"
    /\ rows[ret.arg] # NoRow
    /\ rows[ret.arg].status = FAILED
    /\ ret.val = FALSE

\* The failure record mark_failed must have appended for log entry en.
Recorded(en) ==
    \E i \in 1..Len(errors) :
        /\ errors[i].accession_number = en.acc
        /\ errors[i].error_type = en.exc.type
        /\ errors[i].error_message = en.exc.msg

\* The descriptors of the current group that engine e has passed each have
\* their outcome in the log, in order: failed exactly when something raised,
\* processed otherwise unless skipped.
GroupOutcomes(e) ==
    pc[e] \in {"filing", "text", "extract", "save", "notify", "mark_processed",
               "mark_failed"} =>
        /\ Len(log[e]) >= fi[e] - 1
        /\ \A j \in 1..(fi[e] - 1) :
              LET en == log[e][Len(log[e]) - (fi[e] - 1) + j]
                  f  == filings[e][j]
              IN /\ en.acc = f.accession_number
                 /\ en.out \in {"malformed", "skipped", "processed", "failed"}
                 /\ en.out = "malformed" <=> Malformed(f)
                 /\ en.out = "failed" <=> en.exc # NoExc

\* C5: an exception raised by extraction, the report write or the
\* notification is caught per filing: the handler appends a failure record
\* with the exception's type name and text, leaves the row failed and linked
\* to that record, and goes on with the next descriptor of the same group;
\* every descriptor of the group gets its own outcome; and no step taken
\* while handling a filing lets an exception out of run_once.
C5_PartialFailureIsolation ==
    /\ [][\A e \in Engines :
            /\ (pc[e] = "mark_failed" /\ Steps(e)) =>
                  /\ exc[e] \in {ExtractExc, SaveExc, NotifyExc}
                  /\ errors' = Append(errors,
                                      ErrorRow(Len(errors) + 1, Acc(e), Filing(e).ticker,
                                               exc[e].type, exc[e].msg))
                  /\ rows'[Acc(e)].status = FAILED
                  /\ rows'[Acc(e)].error_id = Len(errors')
                  /\ pc'[e] = "filing"
                  /\ gi'[e] = gi[e]
                  /\ filings'[e] = filings[e]
                  /\ fi'[e] = fi[e] + 1
            /\ (pc[e] \in {"extract", "save", "notify"} /\ Steps(e)) =>
                  \/ pc'[e] = "mark_failed" /\ exc'[e] # NoExc
                  \/ pc'[e] \in {"save", "notify", "mark_processed"} /\ exc'[e] = NoExc
            /\ InFlight(e) => pc'[e] \notin {"raised", "returned"}]_vars
    /\ [](\A e \in Engines :
            /\ GroupOutcomes(e)
            /\ \A i \in 1..Len(log[e]) :
                  log[e][i].out = "failed" => Recorded(log[e][i]))

\* e1 has returned from a cycle in which extraction raised for a1 and the
\* next filing of the same group, a2, was extracted, saved, notified and
\* marked processed.
C5_Witness ==
    /\ pc["e1"] = "returned"
    /\ Len(log["e1"]) >= 2
    /\ log["e1"][1] = LogEntry("a1", "failed", "present", ExtractExc)
    /\ log["e1"][2] = LogEntry("a2", "processed", "present", NoExc)
    /\ <<"a2", "notify">> \in work["e1"]
    /\ rows["a1"].status = FAILED
    /\ errors[rows["a1"].error_id].error_type = "ValueError"
    /\ rows["a2"].status = PROCESSED

\* C6: a filing whose get_filing_text raised ends with mark_failed, never
\* with mark_processed.
C6_TextFailureMarksFailed ==
    \A e \in Engines : \A i \in 1..Len(log[e]) :
        log[e][i].text = "raised" => log[e][i].out = "failed"

\* The row of a filing this cycle attempted is processed, or failed with
\* error_id naming a failure record of that accession.
Settled(a) ==
    /\ rows[a] # NoRow
    /\ \/ rows[a].status = PROCESSED
       \/ /\ rows[a].status = FAILED
          /\ rows[a].error_id \in 1..Len(errors)
          /\ errors[rows[a].error_id].accession_number = a

\* C7: every descriptor run_once has passed that was well formed and not
\* skipped by the dedup check has a row that is processed, or failed with a
\* current failure record; when a group's loop ends every descriptor of the
\* fetch has been passed.  So at return none is left without a row or
\* in_progress.
C7_NoFilingDropped ==
    \A e \in Engines :
        /\ \A i \in 1..Len(log[e]) :
              log[e][i].out \in {"processed", "failed"} => Settled(log[e][i].acc)
        /\ pc[e] \in {"filing", "mark_processed", "mark_failed"} =>
              /\ Len(log[e]) >= fi[e] - 1
              /\ \A j \in 1..(fi[e] - 1) :
                    log[e][Len(log[e]) - (fi[e] - 1) + j].acc
                        = filings[e][j].accession_number

\* e1 has returned from a cycle that left a1 failed (the report write
\* raised) and a2 processed, both new at their dedup check.
C7_Witness ==
    /\ pc["e1"] = "returned"
    /\ \E i, j \in 1..Len(log["e1"]) :
          /\ log["e1"][i] = LogEntry("a1", "failed", "present", SaveExc)
          /\ log["e1"][j].acc = "a2" /\ log["e1"][j].out = "processed"
    /\ rows["a1"].status = FAILED
    /\ errors[rows["a1"].error_id].error_type = "OSError"
    /\ rows["a2"].status = PROCESSED

\* C8: when get_latest_filings raises for a market group, that step writes
\* nothing to the ledger, the failure history or the outcomes, and run_once
\* goes on to the next group; a run_once that returns has polled every
\* market group that has tickers.
C8_MarketIsolation ==
    /\ [][\A e \in Engines :
            (pc[e] = "fetch" /\ polled'[e][gi[e]] = "fetch_raised") =>
                /\ rows' = rows
                /\ errors' = errors
                /\ log'[e] = log[e]
                /\ work'[e] = work[e]
                /\ pc'[e] = "group"
                /\ gi'[e] = gi[e] + 1]_vars
    /\ [](\A e \in Engines :
            (pc[e] = "returned" /\ tickers[e] # <<>>) =>
                \A m \in 1..Len(Markets) :
                    IF groups(e)[m] = <<>>
                    THEN polled[e][m] = "empty"
                    ELSE polled[e][m] \in {"ok", "fetch_raised"})

\* e1 has returned from a cycle in which the fetch for market "us" raised
\* and the filing of market "in" was fetched and marked processed.
C8_Witness ==
    /\ pc["e1"] = "returned"
    /\ polled["e1"] = <<"fetch_raised", "ok", "empty">>
    /\ log["e1"] = <<LogEntry("a3", "processed", "unfetched", NoExc)>>
    /\ rows["a3"].status = PROCESSED
    /\ rows["a3"].filing_date = FilingDate(dC)

\* C9: run_once never lets an exception out to its caller.
C9_NoExceptionEscapes ==
    \A e \in Engines : pc[e] # "raised"

\* C10: for a max_age that is a duration (max_age >= 0), every row that is
\* in_progress with status_updated_at older than now - max_age when
\* cleanup_stale_in_progress(max_age) is called is failed when it returns,
\* and is_processed then answers false for it.
C10_StaleRecovery ==
    [][\A m \in 0..MaxAge :
          cleanup_stale_in_progress(m) =>
              \A a \in Accessions :
                  (/\ rows[a] # NoRow
                   /\ rows[a].status = IN_PROGRESS
                   /\ rows[a].status_updated_at < now - m) =>
                      /\ rows'[a].status = FAILED
                      /\ ~is_processed([rows |-> rows', errors |-> errors'], a)]_vars

\* A sweep has just returned having found a stale claim; the row is failed
\* with a stale_in_progress record and is_processed answers false.
C10_Witness ==
    /\ ret.op = "cleanup_stale_in_progress"
    /\ ret.val >= 1
    /\ \E a \in Accessions :
          /\ rows[a] # NoRow
          /\ rows[a].status = FAILED
          /\ rows[a].error_id = Len(errors)
          /\ errors[rows[a].error_id].error_type = "stale_in_progress"
          /\ ~is_processed(Db, a)

\* A frame has reached a's descriptor in the list the source returned (line
\* 59), and is about to ask is_processed.
Received(a) ==
    \E e \in Engines :
        /\ pc[e] = "filing"
        /\ fi[e] <= Len(filings[e])
        /\ ~Malformed(Filing(e))
        /\ Acc(e) = a

\* A frame is past the dedup check for a, or has finished an attempt on it.
Attempted(a) ==
    \E e \in Engines :
        \/ InFlight(e) /\ Acc(e) = a
        \/ \E i \in 1..Len(log[e]) :
              log[e][i].acc = a /\ log[e][i].out \in {"processed", "failed"}

\* C11: in the running engine (start_loop, start_scheduled), an accession
\* whose row is in_progress and whose descriptor the source keeps returning
\* cycle after cycle eventually has a row that is no longer in_progress, and
\* is attempted again.
C11_StaleClaimUnblocked ==
    \A a \in Accessions :
        (rows[a].status = IN_PROGRESS /\ []<>Received(a)) =>
            (<>(rows[a].status # IN_PROGRESS) /\ <>Attempted(a))

\* C12: in every state of the ledger that mark_in_progress, mark_processed,
\* mark_failed and the sweep can produce, a row that is not failed has a null
\* error_id, and a failed row's error_id names the last record of
\* filing_errors written for that same accession.
C12_FailureReference ==
    \A a \in Accessions :
        rows[a] # NoRow =>
            IF rows[a].status # FAILED
            THEN rows[a].error_id = NULL
            ELSE /\ rows[a].error_id \in 1..Len(errors)
                 /\ errors[rows[a].error_id].id = rows[a].error_id
                 /\ errors[rows[a].error_id].accession_number = a
                 /\ \A j \in 1..Len(errors) :
                       errors[j].accession_number = a => j <= rows[a].error_id

\* One accession has failed twice and its row names the second of its two
\* records; another has a row that is not failed, with a null error_id.
C12_Witness ==
    \E a, b \in Accessions :
        /\ a # b
        /\ rows[a] # NoRow /\ rows[a].status = FAILED
        /\ Len(errors) = 2
        /\ errors[1].accession_number = a
        /\ errors[2].accession_number = a
        /\ rows[a].error_id = 2
        /\ rows[b] # NoRow /\ rows[b].status = PROCESSED
        /\ rows[b].error_id = NULL

\* Engine e has reached a well-formed descriptor whose row is failed.
AtFailed(e) ==
    /\ pc[e] = "filing"
    /\ fi[e] <= Len(filings[e])
    /\ ~Malformed(Filing(e))
    /\ rows[Acc(e)] # NoRow
    /\ rows[Acc(e)].status = FAILED

\* C13: when run_once reaches a descriptor whose row is failed it does not
\* skip it: with the ledger untouched it goes on to get_filing_text (a
\* descriptor that carries its filing object), and a text that is present is
\* handed to extract_from_text; when the attempt on a filing found failed
\* ends at mark_processed, the row becomes processed with a null error_id
\* and filing_errors is left exactly as it was.
C13_FailedIsRetried ==
    [][\A e \in Engines :
          /\ (AtFailed(e) /\ Steps(e)) =>
                /\ seen'[e] = FAILED
                /\ rows' = rows /\ errors' = errors
                /\ fi'[e] = fi[e]
                /\ Filing(e).filing_obj =>
                      pc'[e] = "text" /\ <<Acc(e), "text">> \in work'[e]
          /\ (pc[e] = "text" /\ seen[e] = FAILED /\ text'[e] = "present") =>
                pc'[e] = "extract" /\ <<Acc(e), "extract">> \in work'[e]
          /\ (pc[e] = "mark_processed" /\ seen[e] = FAILED /\ Steps(e)) =>
                /\ rows'[Acc(e)].status = PROCESSED
                /\ rows'[Acc(e)].error_id = NULL
                /\ errors' = errors
                /\ \E i \in 1..Len(errors') : errors'[i].accession_number = Acc(e)]_vars

\* e1 found a filing failed, fetched its text, extracted, saved, notified and
\* has just marked it processed: error_id is null and the record of the
\* earlier failure is still in filing_errors.
C13_Witness ==
    /\ pc["e1"] = "filing"
    /\ seen["e1"] = FAILED
    /\ Len(log["e1"]) >= 1
    /\ LET en == log["e1"][Len(log["e1"])]
       IN /\ en.out = "processed" /\ en.text = "present"
          /\ {<<en.acc, "text">>, <<en.acc, "extract">>, <<en.acc, "artifact">>,
              <<en.acc, "notify">>} \subseteq work["e1"]
          /\ rows[en.acc].status = PROCESSED
          /\ rows[en.acc].error_id = NULL
          /\ \E i \in 1..Len(errors) :
                /\ errors[i].accession_number = en.acc
                /\ errors[i].error_type = PriorExc.type

\* C14: when get_filing_text returns no text (None or "") for a new filing,
\* run_once goes straight to mark_processed: that step and the mark_processed
\* step leave filing_errors and the collaborator calls as they were, the row
\* ends processed with a null error_id, and the cycle has made no extraction
\* call, written no report and sent no notification for that filing.
C14_AbsentTextProcessed ==
    /\ [][\A e \in Engines :
            /\ (pc[e] = "text" /\ text'[e] = "absent") =>
                  /\ pc'[e] = "mark_processed"
                  /\ work'[e] = work[e]
                  /\ rows' = rows /\ errors' = errors
            /\ (pc[e] = "mark_processed" /\ text[e] = "absent" /\ Steps(e)) =>
                  /\ rows'[Acc(e)].status = PROCESSED
                  /\ rows'[Acc(e)].error_id = NULL
                  /\ errors' = errors
                  /\ work'[e] = work[e]
                  /\ log'[e] = Append(log[e],
                                      LogEntry(Acc(e), "processed", "absent", NoExc))]_vars
    /\ [](\A e \in Engines :
            /\ (pc[e] \in {"extract", "save", "notify", "mark_failed"}) =>
                  text[e] = "present"
            /\ \A i \in 1..Len(log[e]) :
                  log[e][i].text = "absent" =>
                      /\ log[e][i].out = "processed"
                      /\ \A k \in {"extract", "artifact", "notify"} :
                            <<log[e][i].acc, k>> \notin work[e])

\* e1 has returned from a cycle on an empty ledger in which the text of a1
\* was absent: its only collaborator call for a1 was the text fetch, a1 is
\* processed and filing_errors is empty.
C14_Witness ==
    /\ pc["e1"] = "returned"
    /\ \E i \in 1..Len(log["e1"]) :
          log["e1"][i] = LogEntry("a1", "processed", "absent", NoExc)
    /\ \A w \in work["e1"] : w[1] = "a1" => w[2] = "text"
    /\ <<"a1", "text">> \in work["e1"]
    /\ rows["a1"].status = PROCESSED
    /\ rows["a1"].error_id = NULL
    /\ errors = <<>>

\* C15: whatever the ledger holds for accession a (no row, or a row that is
\* failed, in_progress or processed), mark_in_progress(a, ...) leaves the row
\* of a (accession_number is the primary key: there is one) in_progress with
\* a null error_id, touches no other row and no failure record, and an
\* is_processed(a) called next answers true.
C15_ClaimAtomicity ==
    [][\A a \in StoreAccessions :
          /\ ApiMarkInProgress(a, StoreTickers[a], "") =>
                /\ rows'[a] = Row(StoreTickers[a], "", IN_PROGRESS, now, NULL)
                /\ \A b \in Accessions \ {a} : rows'[b] = rows[b]
                /\ errors' = errors
                /\ is_processed([rows |-> rows', errors |-> errors'], a)
          /\ (ret.op = "mark_in_progress" /\ ret.arg = a /\ ApiIsProcessed(a)) =>
                ret'.val = TRUE]_vars

\* is_processed has answered true right after a mark_in_progress that found
\* the row failed: the row is in_progress, its error_id null, and the record
\* of the failure still in filing_errors.
C15_Witness ==
    /\ ret.op = "is_processed"
    /\ ret.val = TRUE
    /\ rows[ret.arg] # NoRow
    /\ rows[ret.arg].status = IN_PROGRESS
    /\ rows[ret.arg].error_id = NULL
    /\ \E i \in 1..Len(errors) : errors[i].accession_number = ret.arg

\* C16: whatever the ledger holds for accession a, no row included,
\* mark_failed(a, ticker, filing_date, error_type, error_message) appends to
\* filing_errors exactly one record, with that accession, ticker, error type
\* and message, changes no earlier record, leaves the one row of a failed
\* with error_id naming the new record, and touches no other row.
C16_MarkFailedFromAnyState ==
    [][\A a \in StoreAccessions, e \in ApiErrors :
          ApiMarkFailed(a, StoreTickers[a], "", e) =>
              /\ Len(errors') = Len(errors) + 1
              /\ SubSeq(errors', 1, Len(errors)) = errors
              /\ errors'[Len(errors')] =
                     ErrorRow(Len(errors'), a, StoreTickers[a], e.type, e.msg)
              /\ rows'[a] # NoRow
              /\ rows'[a].status = FAILED
              /\ rows'[a].ticker = StoreTickers[a]
              /\ rows'[a].error_id = Len(errors')
              /\ \A b \in Accessions \ {a} : rows'[b] = rows[b]]_vars

\* mark_failed has returned on a ledger that held nothing: one failure
\* record, and one row, failed and naming it.
C16_Witness ==
    /\ ret.op = "mark_failed"
    /\ errors = <<ErrorRow(1, ret.arg, StoreTickers[ret.arg], "RuntimeError", "boom")>>
    /\ rows[ret.arg] = Row(StoreTickers[ret.arg], "", FAILED, 0, 1)
    /\ \A b \in Accessions \ {ret.arg} : rows[b] = NoRow

\* C17: mark_processed leaves the row of its accession processed with a null
\* error_id and leaves filing_errors and every other row as they were; applied
\* again to an accession it has already marked, at the same or a later time,
\* it changes neither the status nor the null error_id nor any failure record,
\* and applying it twice in a row gives the ledger that applying it once gives.
C17_MarkProcessedIdempotent ==
    /\ [][\A a \in StoreAccessions :
            ApiMarkProcessed(a, StoreTickers[a], "") =>
                /\ rows'[a] # NoRow
                /\ rows'[a].status = PROCESSED
                /\ rows'[a].error_id = NULL
                /\ errors' = errors
                /\ \A b \in Accessions \ {a} : rows'[b] = rows[b]
                /\ (rows[a] # NoRow /\ rows[a].status = PROCESSED) =>
                      /\ rows'[a].status = rows[a].status
                      /\ rows'[a].error_id = rows[a].error_id
                      /\ rows'[a].ticker = rows[a].ticker
                      /\ rows'[a].filing_date = rows[a].filing_date]_vars
    /\ [](\A a \in StoreAccessions :
            LET once  == mark_processed(Db, a, StoreTickers[a], "")
                twice == mark_processed(once, a, StoreTickers[a], "")
            IN twice = once /\ once.errors = errors)

\* mark_processed has returned, later than time 0, for an accession that
\* failed earlier: the row is processed as of now, its error_id null, and the
\* record of the failure still in filing_errors.
C17_Witness ==
    /\ ret.op = "mark_processed"
    /\ now >= 1
    /\ rows[ret.arg] = Row(StoreTickers[ret.arg], "", PROCESSED, now, NULL)
    /\ \E i \in 1..Len(errors) : errors[i].accession_number = ret.arg

\* The frames in which run_once is executing.
Running == {e \in Engines : Active(e)}

\* C18: under start_scheduled at most one run_once executes at any time, the
\* run at start-up included; a run_once begins only when none is executing;
\* and a firing of the trigger that finds one executing starts nothing and
\* leaves nothing behind but its log line: every frame, the ledger and the
\* scheduler's job are as they were.
C18_SingleInstance ==
    /\ [](call.fn = "start_scheduled" => Cardinality(Running) <= 1)
    /\ [][call.fn = "start_scheduled" =>
            /\ \A e \in Engines :
                  (~Active(e) /\ pc'[e] \notin {"idle", "returned", "raised",
                                                "interrupted"}) => Running = {}
            /\ JobSkipped =>
                  /\ Running # {}
                  /\ UNCHANGED <<storeVars, frameVars, call, main, trigger>>
                  /\ slog' = slog \cup {"job_skipped"}
            /\ (main = "startup" /\ Active("e1")) => main' # "scheduler"]_vars

\* The scheduler is started, a job's run_once is executing, and a firing of
\* the trigger has been skipped.
C18_Witness ==
    /\ call.fn = "start_scheduled"
    /\ main = "scheduler"
    /\ "job_skipped" \in slog
    /\ Cardinality(Running) = 1
    /\ \E e \in Running : pc[e] \in {"text", "extract", "save", "notify"}

\* C19: start_loop and start_scheduled called with a non-positive interval,
\* with or without a cron expression, valid or not, raise their ValueError
\* before anything else happens: no trigger is installed and no frame ever
\* runs run_once.
C19_NonPositiveIntervalRejected ==
    (call.fn \in {"start_loop", "start_scheduled"} /\ call.interval <= 0) =>
        /\ main \in {"called", "value_error"}
        /\ trigger = NoTrigger
        /\ \A e \in Engines : pc[e] = "idle"

\* start_scheduled was called, APScheduler importable, with a cron expression
\* that from_crontab rejects.
InvalidCronCall ==
    /\ call.fn = "start_scheduled"
    /\ call.apscheduler
    /\ call.cron # <<>>
    /\ from_crontab_raises(call.cron)

\* C20: start_scheduled called with a cron expression that does not parse
\* never raises ValueError: its first step logs the parse failure and adds
\* the job with IntervalTrigger(minutes=interval_minutes); its next step is
\* the run_once at start-up, on the main thread; and when that run returns
\* the scheduler is started with that trigger.
C20_InvalidCronFallsBack ==
    /\ [](InvalidCronCall =>
            /\ main # "value_error"
            /\ main \in {"scheduled", "startup", "scheduler"} =>
                  /\ trigger = IntervalTrigger(call.interval)
                  /\ {"invalid_cron", "scheduled_interval"} \subseteq slog
                  /\ "scheduled_cron" \notin slog)
    /\ [][InvalidCronCall =>
            /\ (main = "called" /\ main' # main) =>
                  /\ main' = "scheduled"
                  /\ trigger' = IntervalTrigger(call.interval)
                  /\ "invalid_cron" \in slog'
                  /\ \A e \in Engines : pc'[e] = "idle"
            /\ (main = "scheduled" /\ main' # main) =>
                  /\ main' = "startup"
                  /\ pc'["e1"] = "group"
            /\ (main = "startup" /\ pc["e1"] = "returned" /\ main' # main) =>
                  main' \in {"scheduler", "crashed"}
            /\ (main' = "scheduler" /\ main # main') =>
                  main = "startup" /\ pc["e1"] = "returned"]_vars

\* Called with "not-a-cron" and a one-minute interval, start_scheduled has
\* logged the parse failure, finished the run at start-up and started the
\* scheduler with the interval trigger, which has fired: a job is running.
C20_Witness ==
    /\ InvalidCronCall
    /\ call.cron = BadCron
    /\ call.interval = 1
    /\ main = "scheduler"
    /\ trigger = IntervalTrigger(1)
    /\ "invalid_cron" \in slog
    /\ \E e \in Engines : Active(e)

\* The simple loop is what runs: start_loop was called, or start_scheduled
\* fell back to it.
LoopCall ==
    \/ call.fn = "start_loop"
    \/ call.fn = "start_scheduled" /\ ~call.apscheduler

\* C21: in the simple loop a cancellation (Ctrl+C) takes effect between
\* cycles only: no run_once is ever cut short, so once the loop has stopped
\* every filing whose text fetch the last cycle started has its outcome,
\* processed or failed, written by mark_processed or mark_failed; and a loop
\* that has stopped starts no further run_once.
C21_CancelBetweenCycles ==
    /\ [](LoopCall =>
            /\ pc["e1"] # "interrupted"
            /\ main = "stopped" =>
                  \A w \in work["e1"] :
                      \E i \in 1..Len(log["e1"]) :
                          /\ log["e1"][i].acc = w[1]
                          /\ log["e1"][i].out \in {"processed", "failed"})
    /\ [][(LoopCall /\ main = "stopped") =>
              main' = "stopped" /\ pc' = pc]_vars

\* C22: get_processed_count returns the number of rows whose status is
\* processed; rows that are in_progress or failed are not counted.
C22_CountsProcessedOnly ==
    ret.op = "get_processed_count" =>
        ret.val = Cardinality({a \in Accessions :
                                  rows[a] # NoRow /\ rows[a].status = PROCESSED})

\* The rows a sweep with threshold max_age is to transition: in_progress,
\* with status_updated_at before now - max_age.
Aged(max_age) ==
    {a \in Accessions : /\ rows[a] # NoRow
                        /\ rows[a].status = IN_PROGRESS
                        /\ rows[a].status_updated_at < now - max_age}

\* A step that is cleanup_stale_in_progress(max_age) turns exactly the aged
\* rows failed, each with one new failure record of type et, returns their
\* number, and leaves every other row and every earlier record as it was.
SweepFrame(max_age, et) ==
    cleanup_stale_in_progress(max_age) =>
        /\ Len(errors') = Len(errors) + Cardinality(Aged(max_age))
        /\ SubSeq(errors', 1, Len(errors)) = errors
        /\ ret'.val = Cardinality(Aged(max_age))
        /\ \A a \in Aged(max_age) :
              /\ rows'[a].status = FAILED
              /\ rows'[a].error_id \in (Len(errors) + 1)..Len(errors')
              /\ errors'[rows'[a].error_id].accession_number = a
              /\ errors'[rows'[a].error_id].error_type = et
        /\ \A a \in Accessions \ Aged(max_age) : rows'[a] = rows[a]

\* C23: for a max_age that is a duration (max_age >= 0), the sweep
\* transitions exactly the rows that are in_progress and older than
\* now - max_age: each becomes failed with one new failure record of error
\* type "stale_claim", the count returned is the number of rows transitioned,
\* and every other row and every existing failure record is unchanged.
C23_SweepFrame ==
    [][\A m \in 0..MaxAge : SweepFrame(m, "stale_claim")]_vars

\* The same frame with the error type line 158 writes.
SweepFrameAsCoded ==
    [][\A m \in 0..MaxAge : SweepFrame(m, "stale_in_progress")]_vars

\* C24: once the row of an accession is processed, no step of the system
\* changes its status or its error_id or appends a failure record for that
\* accession; and no step removes a row.
C24_ProcessedAbsorbing ==
    [][\A a \in Accessions :
          /\ rows[a] # NoRow => rows'[a] # NoRow
          /\ (rows[a] # NoRow /\ rows[a].status = PROCESSED) =>
                /\ rows'[a].status = PROCESSED
                /\ rows'[a].error_id = rows[a].error_id
                /\ \A i \in (Len(errors) + 1)..Len(errors') :
                      errors'[i].accession_number # a]_vars

====
